---- MODULE Spec2Model ----
(***************************************************************************)
(* EduTrack: the student, course and enrollment services over one shared   *)
(* PostgreSQL database.  Every request handler opens its own connection    *)
(* (psycopg, autocommit off), so a handler is one READ COMMITTED           *)
(* transaction: each statement reads the rows committed when the statement *)
(* starts, an UPDATE or DELETE takes the row's lock until the transaction  *)
(* ends and then acts on the latest committed version of the row, and the  *)
(* writes become visible together at conn.commit().  One action below is   *)
(* one datastore statement of a handler together with the Python code      *)
(* that follows it up to the next statement.                               *)
(***************************************************************************)
EXTENDS Integers, FiniteSets, Sequences, TLC

\* ---------------------------------------------------------------- bounds
NumStudents == 2
NumCourses == 2
NumProcs == 3
MaxCap == 2
MaxSeqOps == 3
MaxPatchOps == 2
MaxTokens == 2
MaxClock == 12
TickHours == 4

\* timedelta(hours=8): the lifetime of an admin token.
TokenHours == 8

StudentIds == 1..NumStudents
CourseIds == 1..NumCourses
Procs == 1..NumProcs

VARIABLES
    students,      \* committed rows of table students: student_id -> row
    courses,       \* committed rows of table courses: course_id -> row
    enrollments,   \* committed rows of table enrollments
    nextId,        \* the serial sequence behind enrollments.enrollment_id
    pc,            \* per request worker: the statement it executes next
    req,           \* per request worker: the request it is handling
    fetched,       \* per worker: the row delete_enrollment fetched (local `enrollment`)
    tx,            \* per worker: the uncommitted writes of its transaction
    result,        \* per worker: the outcome returned to the caller
    ops,           \* number of requests started so far
    body,          \* per worker: the rows a list endpoint returned
    active_tokens, \* the course service's in-memory token table: token -> session
    now,           \* the wall clock datetime.now() reads, in hours
    nextToken,     \* the tokens secrets.token_urlsafe has handed out so far
    nextCourseId,  \* the serial sequence behind courses.course_id
    nextStudentId  \* the serial sequence behind students.student_id

\* The course service's process memory with the clock, and the sequences of
\* the catalogue tables.
session == <<active_tokens, now, nextToken>>
catalog == <<nextCourseId, nextStudentId>>

vars == <<students, courses, enrollments, nextId, pc, req, fetched, tx, result, ops,
          body, active_tokens, now, nextToken, nextCourseId, nextStudentId>>

\* ------------------------------------------------------------ data model
NoFetch == [student_id |-> 0, course_id |-> 0]

NoTx == [ins |-> {}, del |-> {}, upd |-> {}, crs |-> {}, delS |-> {}, delC |-> {},
         stu |-> {}]

\* An Authorization header is the text of its scheme chunks followed by a
\* token; NoHeader is the header that was not sent.
Header(scheme, token) == [scheme |-> scheme, token |-> token]
NoHeader == Header(<<>>, 0)

\* A request with no field supplied: "None", -1 and 0 stand for Python's None
\* in a text, a number and a code or address.
NoReq == [op |-> "none", student_id |-> 0, course_id |-> 0, enrollment_id |-> 0,
          grade |-> "None", status |-> "None", max_capacity |-> -1,
          course_code |-> 0, course_name |-> "None", description |-> "None",
          credits |-> -1, instructor |-> "None",
          name |-> "None", email |-> 0, phone |-> "None",
          authorization |-> NoHeader, username |-> "None", password |-> "None"]

\* A new row of table courses as the schema defaults leave it.
CourseRow(cap) ==
    [status |-> "active", max_capacity |-> cap, current_enrollment |-> 0,
     course_code |-> 0, course_name |-> "Name0", description |-> "None",
     credits |-> 3, instructor |-> "None"]

\* A row of table students.
StudentRow(name, email, phone) == [name |-> name, email |-> email, phone |-> phone]

\* A new row of table enrollments: grade NULL, status at its default.
EnrollmentRow(eid, sid, cid) ==
    [enrollment_id |-> eid, student_id |-> sid, course_id |-> cid,
     grade |-> "None", status |-> "enrolled"]

RowsOfCourse(cid) == {e \in enrollments : e.course_id = cid}
RowsOfStudent(sid) == {e \in enrollments : e.student_id = sid}
RowsOfPair(sid, cid) == {e \in enrollments : e.student_id = sid /\ e.course_id = cid}
RowsOfId(eid) == {e \in enrollments : e.enrollment_id = eid}

\* An entry of the token table.
NoSession == [username |-> "None", expires_at |-> 0]

\* ---------------------------------------------------- datastore primitives
\* A course row whose lock is never granted.
CourseAlwaysLocked(p, cid) == TRUE

\* Row locks are held by the transactions with an uncommitted write of the row.
CourseLockedByOther(p, cid) ==
    \E q \in Procs \ {p} :
        \/ \E w \in tx[q].crs : w.course_id = cid
        \/ cid \in tx[q].delC

EnrollmentLockedByOther(p, eid) ==
    \E q \in Procs \ {p} :
        \/ eid \in tx[q].del
        \/ \E u \in tx[q].upd : u.enrollment_id = eid

\* UNIQUE (student_id, course_id) on enrollments: an INSERT waits for an
\* uncommitted row of the same pair and fails on a committed one.
PairInsertedByOther(p, sid, cid) ==
    \E q \in Procs \ {p} :
        \E e \in tx[q].ins : e.student_id = sid /\ e.course_id = cid

\* ... or for a committed row of the pair that another transaction is deleting.
PairDeletedByOther(p, sid, cid) ==
    \E q \in Procs \ {p} :
        \E e \in RowsOfPair(sid, cid) :
            \/ e.enrollment_id \in tx[q].del
            \/ e.student_id \in tx[q].delS
            \/ e.course_id \in tx[q].delC

\* The enrollments table without its UNIQUE (student_id, course_id) constraint.
NoUniquePairViolation(sid, cid) == FALSE

UniquePairViolation(sid, cid) == RowsOfPair(sid, cid) # {}

\* The INSERT's foreign-key check waits for a transaction that is deleting the
\* referenced student or course; a DELETE of either waits for a transaction
\* holding an uncommitted enrollment that references it.
ReferenceDeletedByOther(p, sid, cid) ==
    \E q \in Procs \ {p} : sid \in tx[q].delS \/ cid \in tx[q].delC

StudentReferencedByOther(p, sid) ==
    \E q \in Procs \ {p} :
        \/ \E e \in tx[q].ins : e.student_id = sid
        \/ sid \in tx[q].delS

CourseReferencedByOther(p, cid) ==
    \E q \in Procs \ {p} : \E e \in tx[q].ins : e.course_id = cid

\* The row locks of table students.
StudentLockedByOther(p, sid) ==
    \E q \in Procs \ {p} :
        \/ sid \in tx[q].delS
        \/ \E w \in tx[q].stu : w.student_id = sid

\* The courses table without its UNIQUE (course_code) constraint.
NoCourseCodeViolation(cid, code) == FALSE

\* UNIQUE (course_code) on courses: writing a code into row cid fails when a
\* committed row other than cid holds the code ...
CourseCodeViolation(cid, code) ==
    \E d \in (DOMAIN courses) \ {cid} : courses[d].course_code = code

\* ... and waits while another transaction holds an uncommitted row with the
\* code or an uncommitted write of the committed row that holds it.
CourseCodeWrittenByOther(p, cid, code) ==
    \E q \in Procs \ {p} :
        \/ \E w \in tx[q].crs : w.course_id # cid /\ w.row.course_code = code
        \/ \E d \in (DOMAIN courses) \ {cid} :
            /\ courses[d].course_code = code
            /\ d \in tx[q].delC \/ \E w \in tx[q].crs : w.course_id = d

\* UNIQUE (email) on students, likewise.
EmailViolation(sid, email) ==
    \E d \in (DOMAIN students) \ {sid} : students[d].email = email

EmailWrittenByOther(p, sid, email) ==
    \E q \in Procs \ {p} :
        \/ \E w \in tx[q].stu : w.student_id # sid /\ w.row.email = email
        \/ \E d \in (DOMAIN students) \ {sid} :
            /\ students[d].email = email
            /\ d \in tx[q].delS \/ \E w \in tx[q].stu : w.student_id = d

\* FOREIGN KEY enrollments -> students, courses: the referenced rows must exist.
\* A datastore without the foreign keys of the Enrollment table.
NoForeignKeyViolation(sid, cid) == FALSE

ForeignKeyViolation(sid, cid) ==
    sid \notin DOMAIN students \/ cid \notin DOMAIN courses

\* A commit whose deleted course leaves its enrollments behind.
CommittedEnrollmentsUncascaded(t) ==
    LET kept == {e \in enrollments : e.enrollment_id \notin t.del \/ e.course_id \in t.delC}
        updIds == {u.enrollment_id : u \in t.upd}
    IN  {e \in kept : e.enrollment_id \notin updIds}
        \cup {u \in t.upd : \E e \in kept : e.enrollment_id = u.enrollment_id}
        \cup t.ins

\* conn.commit(): every write of the transaction becomes visible at once.
CommittedEnrollments(t) ==
    LET kept == {e \in enrollments :
                    /\ e.enrollment_id \notin t.del
                    /\ e.student_id \notin t.delS
                    /\ e.course_id \notin t.delC}
        updIds == {u.enrollment_id : u \in t.upd}
    IN  {e \in kept : e.enrollment_id \notin updIds}
        \cup {u \in t.upd : \E e \in kept : e.enrollment_id = u.enrollment_id}
        \cup t.ins

\* A commit that loses the transaction's writes of course rows.
CommittedCoursesUnwritten(t) == [c \in (DOMAIN courses) \ t.delC |-> courses[c]]

CommittedCourses(t) ==
    LET left == (DOMAIN courses) \ t.delC
    IN  [c \in left \cup {w.course_id : w \in t.crs} |->
            IF \E w \in t.crs : w.course_id = c
            THEN (CHOOSE w \in t.crs : w.course_id = c).row
            ELSE courses[c]]

CommittedStudents(t) ==
    LET left == (DOMAIN students) \ t.delS
    IN  [s \in left \cup {w.student_id : w \in t.stu} |->
            IF \E w \in t.stu : w.student_id = s
            THEN (CHOOSE w \in t.stu : w.student_id = s).row
            ELSE students[s]]

Commit(p) ==
    /\ enrollments' = CommittedEnrollments(tx[p])
    /\ courses' = CommittedCourses(tx[p])
    /\ students' = CommittedStudents(tx[p])

\* The handler returns or raises: the connection is dropped, and what was not
\* committed is rolled back.
Finish(p, outcome) ==
    /\ pc' = [pc EXCEPT ![p] = "done"]
    /\ result' = [result EXCEPT ![p] = outcome]
    /\ tx' = [tx EXCEPT ![p] = NoTx]
    /\ fetched' = [fetched EXCEPT ![p] = NoFetch]

Goto(p, label) == pc' = [pc EXCEPT ![p] = label]

\* ------------------------------------------------------ create_enrollment
\* SELECT student_id FROM students WHERE student_id = %s
CreateSelectStudent(p) ==
    /\ pc[p] = "c_student"
    /\ IF req[p].student_id \notin DOMAIN students
       THEN Finish(p, "STUDENT_NOT_FOUND")
       ELSE Goto(p, "c_course") /\ UNCHANGED <<result, tx, fetched>>
    /\ UNCHANGED <<students, courses, enrollments, nextId, req, ops>>
    /\ UNCHANGED <<body, session, catalog>>

\* The course checks with the capacity test moved before the status test.
CourseCheckCapacityFirst(cid) ==
    IF cid \notin DOMAIN courses THEN "COURSE_NOT_FOUND"
    ELSE IF courses[cid].current_enrollment >= courses[cid].max_capacity
         THEN "CAPACITY_EXCEEDED"
    ELSE IF courses[cid].status # "active" THEN "INVALID_STATE"
    ELSE "ok"

\* The outcome of the checks made on the fetched course row.
CourseCheck(cid) ==
    IF cid \notin DOMAIN courses THEN "COURSE_NOT_FOUND"
    ELSE IF courses[cid].status # "active" THEN "INVALID_STATE"
    ELSE IF courses[cid].current_enrollment >= courses[cid].max_capacity
         THEN "CAPACITY_EXCEEDED"
    ELSE "ok"

\* SELECT course_id, status, max_capacity, current_enrollment FROM courses ...
CreateSelectCourse(p) ==
    /\ pc[p] = "c_course"
    /\ IF CourseCheck(req[p].course_id) # "ok"
       THEN Finish(p, CourseCheck(req[p].course_id))
       ELSE Goto(p, "c_dup") /\ UNCHANGED <<result, tx, fetched>>
    /\ UNCHANGED <<students, courses, enrollments, nextId, req, ops>>
    /\ UNCHANGED <<body, session, catalog>>

\* SELECT enrollment_id FROM enrollments WHERE student_id = %s AND course_id = %s
CreateSelectDuplicate(p) ==
    /\ pc[p] = "c_dup"
    /\ IF RowsOfPair(req[p].student_id, req[p].course_id) # {}
       THEN Finish(p, "DUPLICATE")
       ELSE Goto(p, "c_insert") /\ UNCHANGED <<result, tx, fetched>>
    /\ UNCHANGED <<students, courses, enrollments, nextId, req, ops>>
    /\ UNCHANGED <<body, session, catalog>>

\* INSERT INTO enrollments (student_id, course_id) VALUES (%s, %s) RETURNING enrollment_id
CreateInsert(p) ==
    /\ pc[p] = "c_insert"
    /\ ~PairInsertedByOther(p, req[p].student_id, req[p].course_id)
    /\ ~PairDeletedByOther(p, req[p].student_id, req[p].course_id)
    /\ ~ReferenceDeletedByOther(p, req[p].student_id, req[p].course_id)
    /\ nextId' = nextId + 1
    /\ IF \/ UniquePairViolation(req[p].student_id, req[p].course_id)
          \/ ForeignKeyViolation(req[p].student_id, req[p].course_id)
       THEN Finish(p, "DB_ERROR")
       ELSE /\ tx' = [tx EXCEPT ![p].ins =
                        {EnrollmentRow(nextId, req[p].student_id, req[p].course_id)}]
            /\ Goto(p, "c_update")
            /\ UNCHANGED <<result, fetched>>
    /\ UNCHANGED <<students, courses, enrollments, req, ops>>
    /\ UNCHANGED <<body, session, catalog>>

\* The counter update left out of create_enrollment.
IncrementSkipped(n) == n

\* The counter update counting the new row twice.
IncrementTwice(n) == n + 2

Increment(n) == n + 1

\* UPDATE courses SET current_enrollment = current_enrollment + 1 WHERE course_id = %s
CreateUpdateCounter(p) ==
    /\ pc[p] = "c_update"
    /\ ~CourseLockedByOther(p, req[p].course_id)
    /\ IF req[p].course_id \in DOMAIN courses
       THEN tx' = [tx EXCEPT ![p].crs =
                    {[course_id |-> req[p].course_id,
                      row |-> [courses[req[p].course_id] EXCEPT
                                !.current_enrollment = Increment(@)]]}]
       ELSE UNCHANGED tx
    /\ Goto(p, "c_commit")
    /\ UNCHANGED <<students, courses, enrollments, nextId, req, fetched, result, ops>>
    /\ UNCHANGED <<body, session, catalog>>

\* conn.commit(), then the created enrollment is read back and returned
CreateCommit(p) ==
    /\ pc[p] = "c_commit"
    /\ Commit(p)
    /\ Finish(p, "CREATED")
    /\ UNCHANGED <<nextId, req, ops>>
    /\ UNCHANGED <<body, session, catalog>>

\* The datastore fails the UPDATE or the commit (connection lost, statement
\* cancelled): psycopg raises DatabaseError, answered 500 at lines 228-232.
CreateFault(p) ==
    /\ pc[p] \in {"c_update", "c_commit"}
    /\ Finish(p, "DB_ERROR")
    /\ UNCHANGED <<students, courses, enrollments, nextId, req, ops>>
    /\ UNCHANGED <<body, session, catalog>>

create_enrollment(p) ==
    \/ CreateSelectStudent(p)
    \/ CreateSelectCourse(p)
    \/ CreateSelectDuplicate(p)
    \/ CreateInsert(p)
    \/ CreateUpdateCounter(p)
    \/ CreateCommit(p)

\* ------------------------------------------------------ update_enrollment
\* An update that writes both columns, the missing ones as NULL.
PatchEnrollmentWhole(e, r) == [e EXCEPT !.grade = r.grade, !.status = r.status]

\* The row of enrollment_id with the supplied fields written, the rest kept.
PatchEnrollment(e, r) ==
    [e EXCEPT !.grade = IF r.grade # "None" THEN r.grade ELSE @,
              !.status = IF r.status # "None" THEN r.status ELSE @]

\* The two checks of update_enrollment with the empty update refused first.
UpdateEnrollmentCheckFieldsFirst(r) ==
    IF r.grade = "None" /\ r.status = "None" THEN "BAD_REQUEST"
    ELSE IF RowsOfId(r.enrollment_id) = {} THEN "NOT_FOUND"
    ELSE "ok"

\* The checks of update_enrollment in the order the handler makes them.
UpdateEnrollmentCheck(r) ==
    IF RowsOfId(r.enrollment_id) = {} THEN "NOT_FOUND"
    ELSE IF r.grade = "None" /\ r.status = "None" THEN "BAD_REQUEST"
    ELSE "ok"

\* SELECT enrollment_id FROM enrollments WHERE enrollment_id = %s, then the
\* update_fields list is built from the request
UpdateEnrollmentSelect(p) ==
    /\ pc[p] = "u_select"
    /\ IF UpdateEnrollmentCheck(req[p]) # "ok"
       THEN Finish(p, UpdateEnrollmentCheck(req[p]))
       ELSE Goto(p, "u_update") /\ UNCHANGED <<result, tx, fetched>>
    /\ UNCHANGED <<students, courses, enrollments, nextId, req, ops>>
    /\ UNCHANGED <<body, session, catalog>>

\* UPDATE enrollments SET ... WHERE enrollment_id = %s
UpdateEnrollmentWrite(p) ==
    /\ pc[p] = "u_update"
    /\ ~EnrollmentLockedByOther(p, req[p].enrollment_id)
    /\ tx' = [tx EXCEPT ![p].upd =
                {PatchEnrollment(e, req[p]) : e \in RowsOfId(req[p].enrollment_id)}]
    /\ Goto(p, "u_commit")
    /\ UNCHANGED <<students, courses, enrollments, nextId, req, fetched, result, ops>>
    /\ UNCHANGED <<body, session, catalog>>

UpdateEnrollmentCommit(p) ==
    /\ pc[p] = "u_commit"
    /\ Commit(p)
    /\ Finish(p, "UPDATED")
    /\ UNCHANGED <<nextId, req, ops>>
    /\ UNCHANGED <<body, session, catalog>>

update_enrollment(p) ==
    \/ UpdateEnrollmentSelect(p)
    \/ UpdateEnrollmentWrite(p)
    \/ UpdateEnrollmentCommit(p)

\* ------------------------------------------------------ delete_enrollment
\* SELECT student_id, course_id FROM enrollments WHERE enrollment_id = %s
DeleteSelect(p) ==
    /\ pc[p] = "d_select"
    /\ IF RowsOfId(req[p].enrollment_id) = {}
       THEN Finish(p, "NOT_FOUND")
       ELSE /\ \E e \in RowsOfId(req[p].enrollment_id) :
                 fetched' = [fetched EXCEPT ![p] =
                    [student_id |-> e.student_id, course_id |-> e.course_id]]
            /\ Goto(p, "d_delete")
            /\ UNCHANGED <<result, tx>>
    /\ UNCHANGED <<students, courses, enrollments, nextId, req, ops>>
    /\ UNCHANGED <<body, session, catalog>>

\* DELETE FROM enrollments WHERE enrollment_id = %s
DeleteRow(p) ==
    /\ pc[p] = "d_delete"
    /\ ~EnrollmentLockedByOther(p, req[p].enrollment_id)
    /\ tx' = [tx EXCEPT ![p].del =
                {e.enrollment_id : e \in RowsOfId(req[p].enrollment_id)}]
    /\ Goto(p, "d_update")
    /\ UNCHANGED <<students, courses, enrollments, nextId, req, fetched, result, ops>>
    /\ UNCHANGED <<body, session, catalog>>

Greatest(a, b) == IF a >= b THEN a ELSE b

\* The decrement without GREATEST(..., 0).
DecrementUnfloored(n) == n - 1

\* The counter update left out of delete_enrollment.
DecrementSkipped(n) == n

\* A delete that resets the counter.
DecrementToZero(n) == 0

Decrement(n) == Greatest(n - 1, 0)

\* UPDATE courses SET current_enrollment = GREATEST(current_enrollment - 1, 0)
\* WHERE course_id = enrollment['course_id']
DeleteUpdateCounter(p) ==
    /\ pc[p] = "d_update"
    /\ ~CourseLockedByOther(p, fetched[p].course_id)
    /\ IF fetched[p].course_id \in DOMAIN courses
       THEN tx' = [tx EXCEPT ![p].crs =
                    {[course_id |-> fetched[p].course_id,
                      row |-> [courses[fetched[p].course_id] EXCEPT
                                !.current_enrollment = Decrement(@)]]}]
       ELSE UNCHANGED tx
    /\ Goto(p, "d_commit")
    /\ UNCHANGED <<students, courses, enrollments, nextId, req, fetched, result, ops>>
    /\ UNCHANGED <<body, session, catalog>>

DeleteCommit(p) ==
    /\ pc[p] = "d_commit"
    /\ Commit(p)
    /\ Finish(p, "DELETED")
    /\ UNCHANGED <<nextId, req, ops>>
    /\ UNCHANGED <<body, session, catalog>>

delete_enrollment(p) ==
    \/ DeleteSelect(p)
    \/ DeleteRow(p)
    \/ DeleteUpdateCounter(p)
    \/ DeleteCommit(p)

\* The first statement of each handler's body.
FirstStatement(op) ==
    CASE op = "create_enrollment" -> "c_student"
      [] op = "delete_enrollment" -> "d_select"
      [] op = "update_enrollment" -> "u_select"
      [] op = "update_course" -> "uc_select"
      [] op = "delete_course" -> "dc_select"
      [] op = "delete_student" -> "ds_select"
      [] op = "get_enrollments_by_student" -> "gs_select"
      [] op = "create_course" -> "cc_select"
      [] op = "create_student" -> "cs_select"
      [] op = "update_student" -> "us_select"
      [] op = "admin_login" -> "login"
      [] op = "admin_logout" -> "lo_check"
      [] op = "get_enrollments_by_course" -> "gc_select"

\* The endpoints declared with Depends(verify_admin_token).
AdminOnly == {"create_course", "update_course", "delete_course", "admin_logout"}

\* ------------------------------------------------------ verify_admin_token
\* authorization.startswith("Bearer ")
StartsWithBearer(h) == Len(h.scheme) > 0 /\ h.scheme[1] = "Bearer "

\* authorization.replace("Bearer ", ""): every "Bearer " chunk is removed; what
\* is left is a key of the token table only if it is a bare token (0: it is not).
TokenOf(h) ==
    IF SelectSeq(h.scheme, LAMBDA x : x # "Bearer ") = <<>> THEN h.token ELSE 0

\* An expiry test that never rejects.
NeverExpired(t, expires_at) == FALSE

\* An expiry test that rejects at expires_at already.
ExpiredAtDeadline(t, expires_at) == t >= expires_at

\* datetime.now() > expires_at
Expired(t, expires_at) == t > expires_at

\* The header tests and `token not in active_tokens` (lines 70-89).
VerifyHeader(p) ==
    /\ pc[p] = "auth"
    /\ IF \/ req[p].authorization = NoHeader
          \/ ~StartsWithBearer(req[p].authorization)
          \/ TokenOf(req[p].authorization) \notin DOMAIN active_tokens
       THEN Finish(p, "UNAUTHORIZED")
       ELSE Goto(p, "auth_expiry") /\ UNCHANGED <<result, tx, fetched>>
    /\ UNCHANGED <<students, courses, enrollments, nextId, req, ops>>
    /\ UNCHANGED <<body, session, catalog>>

\* if datetime.now() > active_tokens[token]["expires_at"] (line 91); the
\* lookup raises KeyError when the token has left the table.
VerifyExpiry(p) ==
    /\ pc[p] = "auth_expiry"
    /\ LET token == TokenOf(req[p].authorization)
       IN  IF token \notin DOMAIN active_tokens
           THEN Finish(p, "INTERNAL_ERROR")
           ELSE /\ IF Expired(now, active_tokens[token].expires_at)
                   THEN Goto(p, "auth_del")
                   ELSE Goto(p, "auth_return")
                /\ UNCHANGED <<result, tx, fetched>>
    /\ UNCHANGED <<students, courses, enrollments, nextId, req, ops>>
    /\ UNCHANGED <<body, session, catalog>>

\* A removal that empties the table.
WithoutAll(table, token) == [t \in {} |-> NoSession]

\* The table without one token.
Without(table, token) == [t \in (DOMAIN table) \ {token} |-> table[t]]

\* del active_tokens[token], then 401 "Token expired" (lines 92-96)
VerifyDelete(p) ==
    /\ pc[p] = "auth_del"
    /\ LET token == TokenOf(req[p].authorization)
       IN  IF token \notin DOMAIN active_tokens
           THEN Finish(p, "INTERNAL_ERROR") /\ UNCHANGED active_tokens
           ELSE /\ active_tokens' = Without(active_tokens, token)
                /\ Finish(p, "UNAUTHORIZED")
    /\ UNCHANGED <<students, courses, enrollments, nextId, req, ops>>
    /\ UNCHANGED <<body, now, nextToken, catalog>>

\* return active_tokens[token]["username"] (line 98): the handler's body runs.
VerifyReturn(p) ==
    /\ pc[p] = "auth_return"
    /\ IF TokenOf(req[p].authorization) \notin DOMAIN active_tokens
       THEN Finish(p, "INTERNAL_ERROR")
       ELSE Goto(p, FirstStatement(req[p].op)) /\ UNCHANGED <<result, tx, fetched>>
    /\ UNCHANGED <<students, courses, enrollments, nextId, req, ops>>
    /\ UNCHANGED <<body, session, catalog>>

verify_admin_token(p) ==
    \/ VerifyHeader(p)
    \/ VerifyExpiry(p)
    \/ VerifyDelete(p)
    \/ VerifyReturn(p)

\* -------------------------------------------------------------- admin_login
\* The rows of table admins: username -> password_hash.
Hash(password) == <<"bcrypt", password>>
Admins == [u \in {"admin"} |-> Hash("secret")]

\* bcrypt.checkpw(password, password_hash)
CheckPw(password, password_hash) == Hash(password) = password_hash

\* The entry admin_login stores for a token issued at time t.
Session(username, t) == [username |-> username, expires_at |-> t + TokenHours]

\* SELECT * FROM admins WHERE username = %s, the password check, and the new
\* entry of the token table.
AdminLogin(p) ==
    /\ pc[p] = "login"
    /\ IF \/ req[p].username \notin DOMAIN Admins
          \/ ~CheckPw(req[p].password, Admins[req[p].username])
       THEN Finish(p, "UNAUTHORIZED") /\ UNCHANGED <<active_tokens, nextToken>>
       ELSE /\ active_tokens' =
                    [t \in (DOMAIN active_tokens) \cup {nextToken} |->
                        IF t = nextToken THEN Session(req[p].username, now)
                        ELSE active_tokens[t]]
            /\ nextToken' = nextToken + 1
            /\ Finish(p, "OK")
    /\ UNCHANGED <<students, courses, enrollments, nextId, req, ops>>
    /\ UNCHANGED <<body, now, catalog>>

admin_login(p) == AdminLogin(p)

\* ------------------------------------------------------------- admin_logout
\* if token in active_tokens (line 374)
LogoutCheck(p) ==
    /\ pc[p] = "lo_check"
    /\ IF TokenOf(req[p].authorization) \in DOMAIN active_tokens
       THEN Goto(p, "lo_del") /\ UNCHANGED <<result, tx, fetched>>
       ELSE Finish(p, "OK")
    /\ UNCHANGED <<students, courses, enrollments, nextId, req, ops>>
    /\ UNCHANGED <<body, session, catalog>>

\* del active_tokens[token] (line 375)
LogoutDelete(p) ==
    /\ pc[p] = "lo_del"
    /\ LET token == TokenOf(req[p].authorization)
       IN  IF token \notin DOMAIN active_tokens
           THEN Finish(p, "INTERNAL_ERROR") /\ UNCHANGED active_tokens
           ELSE /\ active_tokens' = Without(active_tokens, token)
                /\ Finish(p, "OK")
    /\ UNCHANGED <<students, courses, enrollments, nextId, req, ops>>
    /\ UNCHANGED <<body, now, nextToken, catalog>>

admin_logout(p) ==
    \/ LogoutCheck(p)
    \/ LogoutDelete(p)

\* The wall clock advances.
Tick ==
    /\ now + TickHours <= MaxClock
    /\ now' = now + TickHours
    /\ UNCHANGED <<students, courses, enrollments, nextId, pc, req, fetched, tx,
                   result, ops, body, active_tokens, nextToken, catalog>>

\* ----------------------------------------------------------- update_course
\* An update that writes every column of CourseUpdate, the missing ones as NULL.
PatchCourseWhole(c, r) ==
    [c EXCEPT !.course_code = r.course_code, !.course_name = r.course_name,
              !.description = r.description, !.credits = r.credits,
              !.instructor = r.instructor, !.max_capacity = r.max_capacity,
              !.status = r.status]

\* An update that also cuts the counter down to the new max_capacity.
PatchCourseClamped(c, r) ==
    [c EXCEPT !.course_code = IF r.course_code # 0 THEN r.course_code ELSE @,
              !.course_name = IF r.course_name # "None" THEN r.course_name ELSE @,
              !.description = IF r.description # "None" THEN r.description ELSE @,
              !.credits = IF r.credits # -1 THEN r.credits ELSE @,
              !.instructor = IF r.instructor # "None" THEN r.instructor ELSE @,
              !.max_capacity = IF r.max_capacity # -1 THEN r.max_capacity ELSE @,
              !.status = IF r.status # "None" THEN r.status ELSE @,
              !.current_enrollment =
                    IF r.max_capacity # -1 /\ r.max_capacity < @
                    THEN r.max_capacity ELSE @]

\* The course row with the supplied fields written, the rest kept.
PatchCourse(c, r) ==
    [c EXCEPT !.course_code = IF r.course_code # 0 THEN r.course_code ELSE @,
              !.course_name = IF r.course_name # "None" THEN r.course_name ELSE @,
              !.description = IF r.description # "None" THEN r.description ELSE @,
              !.credits = IF r.credits # -1 THEN r.credits ELSE @,
              !.instructor = IF r.instructor # "None" THEN r.instructor ELSE @,
              !.max_capacity = IF r.max_capacity # -1 THEN r.max_capacity ELSE @,
              !.status = IF r.status # "None" THEN r.status ELSE @]

\* `not update_fields`: the request supplies no field of CourseUpdate.
NoCourseFields(r) ==
    /\ r.course_code = 0 /\ r.course_name = "None" /\ r.description = "None"
    /\ r.credits = -1 /\ r.instructor = "None"
    /\ r.max_capacity = -1 /\ r.status = "None"

\* SELECT course_id FROM courses WHERE course_id = %s, then the update_fields
\* list is built from the request
UpdateCourseSelect(p) ==
    /\ pc[p] = "uc_select"
    /\ IF req[p].course_id \notin DOMAIN courses
       THEN Finish(p, "NOT_FOUND")
       ELSE IF NoCourseFields(req[p])
       THEN Finish(p, "BAD_REQUEST")
       ELSE Goto(p, "uc_update") /\ UNCHANGED <<result, tx, fetched>>
    /\ UNCHANGED <<students, courses, enrollments, nextId, req, ops>>
    /\ UNCHANGED <<body, session, catalog>>

\* UPDATE courses SET ... WHERE course_id = %s
UpdateCourseWrite(p) ==
    /\ pc[p] = "uc_update"
    /\ ~CourseLockedByOther(p, req[p].course_id)
    /\ ~CourseCodeWrittenByOther(p, req[p].course_id, req[p].course_code)
    /\ IF req[p].course_id \notin DOMAIN courses
       THEN Goto(p, "uc_commit") /\ UNCHANGED <<tx, fetched, result>>
       ELSE IF CourseCodeViolation(req[p].course_id, req[p].course_code)
       THEN Finish(p, "DB_ERROR")
       ELSE /\ tx' = [tx EXCEPT ![p].crs =
                        {[course_id |-> req[p].course_id,
                          row |-> PatchCourse(courses[req[p].course_id], req[p])]}]
            /\ Goto(p, "uc_commit")
            /\ UNCHANGED <<fetched, result>>
    /\ UNCHANGED <<students, courses, enrollments, nextId, req, ops>>
    /\ UNCHANGED <<body, session, catalog>>

UpdateCourseCommit(p) ==
    /\ pc[p] = "uc_commit"
    /\ Commit(p)
    /\ Finish(p, "UPDATED")
    /\ UNCHANGED <<nextId, req, ops>>
    /\ UNCHANGED <<body, session, catalog>>

update_course(p) ==
    \/ UpdateCourseSelect(p)
    \/ UpdateCourseWrite(p)
    \/ UpdateCourseCommit(p)

\* ----------------------------------------------------------- create_course
\* SELECT course_id FROM courses WHERE course_code = %s
CreateCourseSelect(p) ==
    /\ pc[p] = "cc_select"
    /\ IF \E c \in DOMAIN courses : courses[c].course_code = req[p].course_code
       THEN Finish(p, "DUPLICATE")
       ELSE Goto(p, "cc_insert") /\ UNCHANGED <<result, tx, fetched>>
    /\ UNCHANGED <<students, courses, enrollments, nextId, req, ops>>
    /\ UNCHANGED <<body, session, catalog>>

\* The row the INSERT of create_course writes: the request's six columns,
\* status and current_enrollment at their defaults.
NewCourseRow(r) ==
    [CourseRow(r.max_capacity) EXCEPT
        !.course_code = r.course_code, !.course_name = r.course_name,
        !.description = r.description, !.credits = r.credits,
        !.instructor = r.instructor]

\* INSERT INTO courses (...) VALUES (...) RETURNING course_id
CreateCourseInsert(p) ==
    /\ pc[p] = "cc_insert"
    /\ ~CourseCodeWrittenByOther(p, nextCourseId, req[p].course_code)
    /\ nextCourseId' = nextCourseId + 1
    /\ IF CourseCodeViolation(nextCourseId, req[p].course_code)
       THEN Finish(p, "DB_ERROR")
       ELSE /\ tx' = [tx EXCEPT ![p].crs =
                        {[course_id |-> nextCourseId, row |-> NewCourseRow(req[p])]}]
            /\ Goto(p, "cc_commit")
            /\ UNCHANGED <<result, fetched>>
    /\ UNCHANGED <<students, courses, enrollments, nextId, req, ops>>
    /\ UNCHANGED <<body, session, nextStudentId>>

CreateCourseCommit(p) ==
    /\ pc[p] = "cc_commit"
    /\ Commit(p)
    /\ Finish(p, "CREATED")
    /\ UNCHANGED <<nextId, req, ops>>
    /\ UNCHANGED <<body, session, catalog>>

create_course(p) ==
    \/ CreateCourseSelect(p)
    \/ CreateCourseInsert(p)
    \/ CreateCourseCommit(p)

\* ----------------------------------------------------------- delete_course
\* SELECT course_id FROM courses WHERE course_id = %s
DeleteCourseSelect(p) ==
    /\ pc[p] = "dc_select"
    /\ IF req[p].course_id \notin DOMAIN courses
       THEN Finish(p, "NOT_FOUND")
       ELSE Goto(p, "dc_delete") /\ UNCHANGED <<result, tx, fetched>>
    /\ UNCHANGED <<students, courses, enrollments, nextId, req, ops>>
    /\ UNCHANGED <<body, session, catalog>>

\* ON DELETE CASCADE: the rows of enrollments a deleted parent row takes along.
CascadeOfCourse(cid) == {e.enrollment_id : e \in RowsOfCourse(cid)}
CascadeOfStudent(sid) == {e.enrollment_id : e \in RowsOfStudent(sid)}

\* DELETE FROM courses WHERE course_id = %s (cascades to enrollments)
DeleteCourseRow(p) ==
    /\ pc[p] = "dc_delete"
    /\ ~CourseLockedByOther(p, req[p].course_id)
    /\ ~CourseReferencedByOther(p, req[p].course_id)
    /\ \A eid \in CascadeOfCourse(req[p].course_id) : ~EnrollmentLockedByOther(p, eid)
    /\ IF req[p].course_id \in DOMAIN courses
       THEN tx' = [tx EXCEPT ![p].delC = {req[p].course_id},
                             ![p].del = CascadeOfCourse(req[p].course_id)]
       ELSE UNCHANGED tx
    /\ Goto(p, "dc_commit")
    /\ UNCHANGED <<students, courses, enrollments, nextId, req, fetched, result, ops>>
    /\ UNCHANGED <<body, session, catalog>>

DeleteCourseCommit(p) ==
    /\ pc[p] = "dc_commit"
    /\ Commit(p)
    /\ Finish(p, "DELETED")
    /\ UNCHANGED <<nextId, req, ops>>
    /\ UNCHANGED <<body, session, catalog>>

delete_course(p) ==
    \/ DeleteCourseSelect(p)
    \/ DeleteCourseRow(p)
    \/ DeleteCourseCommit(p)

\* ---------------------------------------------------------- create_student
\* SELECT student_id FROM students WHERE email = %s
CreateStudentSelect(p) ==
    /\ pc[p] = "cs_select"
    /\ IF \E d \in DOMAIN students : students[d].email = req[p].email
       THEN Finish(p, "DUPLICATE")
       ELSE Goto(p, "cs_insert") /\ UNCHANGED <<result, tx, fetched>>
    /\ UNCHANGED <<students, courses, enrollments, nextId, req, ops>>
    /\ UNCHANGED <<body, session, catalog>>

\* INSERT INTO students (name, email, phone) VALUES (%s, %s, %s) RETURNING student_id
CreateStudentInsert(p) ==
    /\ pc[p] = "cs_insert"
    /\ ~EmailWrittenByOther(p, nextStudentId, req[p].email)
    /\ nextStudentId' = nextStudentId + 1
    /\ IF EmailViolation(nextStudentId, req[p].email)
       THEN Finish(p, "DB_ERROR")
       ELSE /\ tx' = [tx EXCEPT ![p].stu =
                        {[student_id |-> nextStudentId,
                          row |-> StudentRow(req[p].name, req[p].email, req[p].phone)]}]
            /\ Goto(p, "cs_commit")
            /\ UNCHANGED <<result, fetched>>
    /\ UNCHANGED <<students, courses, enrollments, nextId, req, ops>>
    /\ UNCHANGED <<body, session, nextCourseId>>

CreateStudentCommit(p) ==
    /\ pc[p] = "cs_commit"
    /\ Commit(p)
    /\ Finish(p, "CREATED")
    /\ UNCHANGED <<nextId, req, ops>>
    /\ UNCHANGED <<body, session, catalog>>

create_student(p) ==
    \/ CreateStudentSelect(p)
    \/ CreateStudentInsert(p)
    \/ CreateStudentCommit(p)

\* ---------------------------------------------------------- update_student
\* The student row with the supplied fields written, the rest kept.
PatchStudent(d, r) ==
    [d EXCEPT !.name = IF r.name # "None" THEN r.name ELSE @,
              !.email = IF r.email # 0 THEN r.email ELSE @,
              !.phone = IF r.phone # "None" THEN r.phone ELSE @]

\* `not update_fields`: the request supplies no field of StudentUpdate.
NoStudentFields(r) == r.name = "None" /\ r.email = 0 /\ r.phone = "None"

\* SELECT student_id FROM students WHERE student_id = %s, then the
\* update_fields list is built from the request
UpdateStudentSelect(p) ==
    /\ pc[p] = "us_select"
    /\ IF req[p].student_id \notin DOMAIN students
       THEN Finish(p, "NOT_FOUND")
       ELSE IF NoStudentFields(req[p])
       THEN Finish(p, "BAD_REQUEST")
       ELSE Goto(p, "us_update") /\ UNCHANGED <<result, tx, fetched>>
    /\ UNCHANGED <<students, courses, enrollments, nextId, req, ops>>
    /\ UNCHANGED <<body, session, catalog>>

\* UPDATE students SET ... WHERE student_id = %s
UpdateStudentWrite(p) ==
    /\ pc[p] = "us_update"
    /\ ~StudentLockedByOther(p, req[p].student_id)
    /\ ~EmailWrittenByOther(p, req[p].student_id, req[p].email)
    /\ IF req[p].student_id \notin DOMAIN students
       THEN Goto(p, "us_commit") /\ UNCHANGED <<tx, fetched, result>>
       ELSE IF EmailViolation(req[p].student_id, req[p].email)
       THEN Finish(p, "DB_ERROR")
       ELSE /\ tx' = [tx EXCEPT ![p].stu =
                        {[student_id |-> req[p].student_id,
                          row |-> PatchStudent(students[req[p].student_id], req[p])]}]
            /\ Goto(p, "us_commit")
            /\ UNCHANGED <<fetched, result>>
    /\ UNCHANGED <<students, courses, enrollments, nextId, req, ops>>
    /\ UNCHANGED <<body, session, catalog>>

UpdateStudentCommit(p) ==
    /\ pc[p] = "us_commit"
    /\ Commit(p)
    /\ Finish(p, "UPDATED")
    /\ UNCHANGED <<nextId, req, ops>>
    /\ UNCHANGED <<body, session, catalog>>

update_student(p) ==
    \/ UpdateStudentSelect(p)
    \/ UpdateStudentWrite(p)
    \/ UpdateStudentCommit(p)

\* ---------------------------------------------------------- delete_student
\* SELECT student_id FROM students WHERE student_id = %s
DeleteStudentSelect(p) ==
    /\ pc[p] = "ds_select"
    /\ IF req[p].student_id \notin DOMAIN students
       THEN Finish(p, "NOT_FOUND")
       ELSE Goto(p, "ds_delete") /\ UNCHANGED <<result, tx, fetched>>
    /\ UNCHANGED <<students, courses, enrollments, nextId, req, ops>>
    /\ UNCHANGED <<body, session, catalog>>

\* DELETE FROM students WHERE student_id = %s (cascades to enrollments)
DeleteStudentRow(p) ==
    /\ pc[p] = "ds_delete"
    /\ ~StudentReferencedByOther(p, req[p].student_id)
    /\ ~StudentLockedByOther(p, req[p].student_id)
    /\ \A eid \in CascadeOfStudent(req[p].student_id) : ~EnrollmentLockedByOther(p, eid)
    /\ IF req[p].student_id \in DOMAIN students
       THEN tx' = [tx EXCEPT ![p].delS = {req[p].student_id},
                             ![p].del = CascadeOfStudent(req[p].student_id)]
       ELSE UNCHANGED tx
    /\ Goto(p, "ds_commit")
    /\ UNCHANGED <<students, courses, enrollments, nextId, req, fetched, result, ops>>
    /\ UNCHANGED <<body, session, catalog>>

DeleteStudentCommit(p) ==
    /\ pc[p] = "ds_commit"
    /\ Commit(p)
    /\ Finish(p, "DELETED")
    /\ UNCHANGED <<nextId, req, ops>>
    /\ UNCHANGED <<body, session, catalog>>

delete_student(p) ==
    \/ DeleteStudentSelect(p)
    \/ DeleteStudentRow(p)
    \/ DeleteStudentCommit(p)

\* ------------------------------------------- get_enrollments_by_student
\* SELECT student_id FROM students WHERE student_id = %s
GetByStudentSelect(p) ==
    /\ pc[p] = "gs_select"
    /\ IF req[p].student_id \notin DOMAIN students
       THEN Finish(p, "NOT_FOUND")
       ELSE Goto(p, "gs_query") /\ UNCHANGED <<result, tx, fetched>>
    /\ UNCHANGED <<students, courses, enrollments, nextId, req, ops>>
    /\ UNCHANGED <<body, session, catalog>>

\* The query without its WHERE clause.
EnrollmentsOfAnyStudent(sid) == enrollments

\* SELECT e.*, c.... FROM enrollments e JOIN courses c ON e.course_id =
\* c.course_id WHERE e.student_id = %s: the e.* part of the joined rows.
EnrollmentsOfStudent(sid) ==
    {e \in enrollments : e.student_id = sid /\ e.course_id \in DOMAIN courses}

GetByStudentQuery(p) ==
    /\ pc[p] = "gs_query"
    /\ body' = [body EXCEPT ![p] = EnrollmentsOfStudent(req[p].student_id)]
    /\ Finish(p, "OK")
    /\ UNCHANGED <<students, courses, enrollments, nextId, req, ops>>
    /\ UNCHANGED <<session, catalog>>

get_enrollments_by_student(p) ==
    \/ GetByStudentSelect(p)
    \/ GetByStudentQuery(p)

\* -------------------------------------------- get_enrollments_by_course
\* SELECT course_id FROM courses WHERE course_id = %s
GetByCourseSelect(p) ==
    /\ pc[p] = "gc_select"
    /\ IF req[p].course_id \notin DOMAIN courses
       THEN Finish(p, "NOT_FOUND")
       ELSE Goto(p, "gc_query") /\ UNCHANGED <<result, tx, fetched>>
    /\ UNCHANGED <<students, courses, enrollments, nextId, req, ops>>
    /\ UNCHANGED <<body, session, catalog>>

\* SELECT e.*, s.... FROM enrollments e JOIN students s ON e.student_id =
\* s.student_id WHERE e.course_id = %s: the e.* part of the joined rows.
EnrollmentsOfCourse(cid) ==
    {e \in enrollments : e.course_id = cid /\ e.student_id \in DOMAIN students}

GetByCourseQuery(p) ==
    /\ pc[p] = "gc_query"
    /\ body' = [body EXCEPT ![p] = EnrollmentsOfCourse(req[p].course_id)]
    /\ Finish(p, "OK")
    /\ UNCHANGED <<students, courses, enrollments, nextId, req, ops>>
    /\ UNCHANGED <<session, catalog>>

get_enrollments_by_course(p) ==
    \/ GetByCourseSelect(p)
    \/ GetByCourseQuery(p)

\* ------------------------------------------------------- inbound requests
\* The requests a client can send, by endpoint.
CreateRequests ==
    {[NoReq EXCEPT !.op = "create_enrollment", !.student_id = s, !.course_id = c] :
        s \in StudentIds, c \in CourseIds}

DeleteRequests ==
    {[NoReq EXCEPT !.op = "delete_enrollment", !.enrollment_id = e] : e \in 1..nextId}

UpdateEnrollmentRequests ==
    {[NoReq EXCEPT !.op = "update_enrollment", !.enrollment_id = e,
                   !.grade = g, !.status = s] :
        e \in 1..nextId, g \in {"None", "A"}, s \in {"None", "completed"}}

UpdateCourseRequests ==
    {[NoReq EXCEPT !.op = "update_course", !.course_id = c,
                   !.status = s, !.max_capacity = m] :
        c \in CourseIds, s \in {"None", "active", "inactive"}, m \in {-1} \cup 1..MaxCap}

DeleteCourseRequests ==
    {[NoReq EXCEPT !.op = "delete_course", !.course_id = c] : c \in CourseIds}

DeleteStudentRequests ==
    {[NoReq EXCEPT !.op = "delete_student", !.student_id = s] : s \in StudentIds}

\* The course codes and e-mail addresses requests carry: those of the initial
\* rows and one more.
Codes == 1..(NumCourses + 1)
Emails == 1..(NumStudents + 1)

CreateCourseRequests ==
    {[NoReq EXCEPT !.op = "create_course", !.course_code = k,
                   !.course_name = "Name1", !.credits = 3, !.max_capacity = MaxCap] :
        k \in Codes}

\* update_course requests that change the course_code only.
RecodeRequests ==
    {[NoReq EXCEPT !.op = "update_course", !.course_id = c, !.course_code = k] :
        c \in CourseIds, k \in Codes}

CreateStudentRequests ==
    {[NoReq EXCEPT !.op = "create_student", !.name = "Name1", !.email = m] :
        m \in Emails}

\* update_student requests that change the email only.
ReaddressRequests ==
    {[NoReq EXCEPT !.op = "update_student", !.student_id = d, !.email = m] :
        d \in StudentIds, m \in Emails}

\* update_course requests with any subset of the seven fields supplied, for the
\* courses there are and for an id no course has.
CoursePatchRequests ==
    {[NoReq EXCEPT !.op = "update_course", !.course_id = c,
                   !.course_code = k, !.course_name = n, !.description = d,
                   !.credits = cr, !.instructor = i, !.max_capacity = m,
                   !.status = st] :
        c \in 1..nextCourseId, k \in {0, NumCourses + 1}, n \in {"None", "Name1"},
        d \in {"None", "Text"}, cr \in {-1, 4}, i \in {"None", "Staff"},
        m \in {-1, 1}, st \in {"None", "inactive"}}

\* update_student requests with any subset of the three fields supplied.
StudentPatchRequests ==
    {[NoReq EXCEPT !.op = "update_student", !.student_id = d,
                   !.name = n, !.email = m, !.phone = ph] :
        d \in 1..nextStudentId, n \in {"None", "Name1"},
        m \in {0, NumStudents + 1}, ph \in {"None", "555"}}

ByStudentRequests ==
    {[NoReq EXCEPT !.op = "get_enrollments_by_student", !.student_id = s] :
        s \in StudentIds}

ByCourseRequests ==
    {[NoReq EXCEPT !.op = "get_enrollments_by_course", !.course_id = c] :
        c \in CourseIds}

\* The Authorization headers a client can send: none, a bare token, and a token
\* after the scheme Basic, Bearer, or Bearer written twice.
Schemes == {<<>>, <<"Basic ">>, <<"Bearer ">>, <<"Bearer ", "Bearer ">>}
Headers == {NoHeader} \cup {Header(sc, t) : sc \in Schemes, t \in 1..MaxTokens}

LoginRequests ==
    {[NoReq EXCEPT !.op = "admin_login", !.username = u, !.password = pw] :
        u \in {"admin", "guest"}, pw \in {"secret", "wrong"}}

LogoutRequests ==
    {[NoReq EXCEPT !.op = "admin_logout", !.authorization = h] : h \in Headers}

\* Requests to the admin-only course endpoints, under every header.
CourseAdminRequests ==
    {[r EXCEPT !.authorization = h] :
        r \in {q \in CreateCourseRequests : q.course_code = NumCourses + 1}
               \cup {q \in UpdateCourseRequests :
                        q.status = "inactive" /\ q.max_capacity = -1}
               \cup DeleteCourseRequests,
        h \in Headers}

\* Logouts and course deletions under a well-formed Bearer header.
BearerRequests ==
    {r \in LogoutRequests \cup CourseAdminRequests :
        /\ r.op \in {"admin_logout", "delete_course"}
        /\ r.authorization.scheme = <<"Bearer ">>}

\* The logins with the right credentials.
GoodLogins == {r \in LoginRequests : r.username = "admin" /\ r.password = "secret"}

\* A worker takes a request, and opens its connection once the endpoint's
\* dependency verify_admin_token has returned.  Logins stop at MaxTokens tokens.
Receive(p, requests) ==
    /\ pc[p] = "idle"
    /\ \E r \in requests :
        /\ r.op = "admin_login" => nextToken <= MaxTokens
        /\ req' = [req EXCEPT ![p] = r]
        /\ pc' = [pc EXCEPT ![p] = IF r.op \in AdminOnly THEN "auth"
                                   ELSE FirstStatement(r.op)]
    /\ ops' = ops + 1
    /\ UNCHANGED <<students, courses, enrollments, nextId, fetched, tx, result>>
    /\ UNCHANGED <<body, session, catalog>>

\* A worker takes a request and opens its connection.
Begin(p, requests) ==
    /\ pc[p] = "idle"
    /\ \E r \in requests :
        /\ req' = [req EXCEPT ![p] = r]
        /\ pc' = [pc EXCEPT ![p] = FirstStatement(r.op)]
    /\ ops' = ops + 1
    /\ UNCHANGED <<students, courses, enrollments, nextId, fetched, tx, result>>
    /\ UNCHANGED <<body, session, catalog>>

\* The worker that answered a request takes the next one, up to n requests.
ResetWithin(p, n) ==
    /\ pc[p] = "done"
    /\ ops < n
    /\ pc' = [pc EXCEPT ![p] = "idle"]
    /\ req' = [req EXCEPT ![p] = NoReq]
    /\ result' = [result EXCEPT ![p] = "none"]
    /\ body' = [body EXCEPT ![p] = {}]
    /\ UNCHANGED <<students, courses, enrollments, nextId, fetched, tx, ops>>
    /\ UNCHANGED <<session, catalog>>

Reset(p) == ResetWithin(p, MaxSeqOps)

\* ------------------------------------------------------------ initial states
\* All students exist, every course is active with the same capacity, and the
\* first k students are enrolled in course 1, its counter counting them.
InitWith(k) ==
    /\ students = [s \in StudentIds |-> StudentRow("Name0", s, "None")]
    /\ enrollments = {EnrollmentRow(i, i, 1) : i \in 1..k}
    /\ \E cap \in 1..MaxCap :
        /\ cap >= k
        /\ courses = [c \in CourseIds |->
                        [CourseRow(cap) EXCEPT
                            !.course_code = c,
                            !.current_enrollment = IF c = 1 THEN k ELSE 0]]
    /\ nextId = k + 1
    /\ pc = [p \in Procs |-> "idle"]
    /\ req = [p \in Procs |-> NoReq]
    /\ fetched = [p \in Procs |-> NoFetch]
    /\ tx = [p \in Procs |-> NoTx]
    /\ result = [p \in Procs |-> "none"]
    /\ ops = 0
    /\ body = [p \in Procs |-> {}]
    /\ active_tokens = [t \in {} |-> NoSession]
    /\ now = 0
    /\ nextToken = 1
    /\ nextCourseId = NumCourses + 1
    /\ nextStudentId = NumStudents + 1

Init == InitWith(0)

InitEnrolled == \E k \in 0..MaxCap : k <= NumStudents /\ InitWith(k)

\* ------------------------------------------------------------ specifications
EnrollmentRequests == CreateRequests \cup DeleteRequests \cup UpdateEnrollmentRequests

\* Concurrent workers, one request each, on an empty enrollments table:
\* enrollment requests racing each other and the course administration.
EnrollAdminRequests == CreateRequests \cup UpdateCourseRequests

Next ==
    \E p \in Procs :
        \/ Begin(p, EnrollAdminRequests)
        \/ create_enrollment(p)
        \/ update_course(p)

Spec == Init /\ [][Next]_vars

\* Concurrent workers, one request each, of the enrollment service on a table
\* that already holds enrollments.
EnrolledNext ==
    \E p \in Procs :
        \/ Begin(p, EnrollmentRequests)
        \/ create_enrollment(p)
        \/ update_enrollment(p)
        \/ delete_enrollment(p)

SpecEnrolled == InitEnrolled /\ [][EnrolledNext]_vars

\* Concurrent workers, one create_enrollment each, on a datastore that may
\* fail a statement after the INSERT.
FaultNext ==
    \E p \in Procs :
        \/ Begin(p, CreateRequests)
        \/ create_enrollment(p)
        \/ CreateFault(p)

FaultSpec == InitEnrolled /\ [][FaultNext]_vars

\* Concurrent workers, one request each: enrollments are created while the
\* students and courses they reference are deleted.
ReferenceRequests == CreateRequests \cup DeleteStudentRequests \cup DeleteCourseRequests

ReferenceNext ==
    \E p \in Procs :
        \/ Begin(p, ReferenceRequests)
        \/ create_enrollment(p)
        \/ delete_student(p)
        \/ delete_course(p)

ReferenceSpec == InitEnrolled /\ [][ReferenceNext]_vars

EnrollDropRequests == CreateRequests \cup DeleteRequests

\* Concurrent workers, one request each: enrolling and dropping.
EnrollDropNext ==
    \E p \in Procs :
        \/ Begin(p, EnrollDropRequests)
        \/ create_enrollment(p)
        \/ delete_enrollment(p)

EnrollDropSpec == InitEnrolled /\ [][EnrollDropNext]_vars

\* The same workers under fair scheduling: a worker thread whose next statement
\* can run, because the datastore grants the lock it asks for, runs it.
FairEnrollDropSpec ==
    /\ EnrollDropSpec
    /\ \A p \in Procs : WF_vars(create_enrollment(p) \/ delete_enrollment(p))

\* One worker handling requests one at a time: enrolling and dropping.

SeqEnrollmentNext ==
    \E p \in {1} :
        \/ Begin(p, EnrollDropRequests)
        \/ Reset(p)
        \/ create_enrollment(p)
        \/ delete_enrollment(p)

SeqEnrollmentSpec == InitEnrolled /\ [][SeqEnrollmentNext]_vars

\* One worker handling requests one at a time: enrolling and grading.
EnrollGradeRequests == CreateRequests \cup UpdateEnrollmentRequests

SeqUpdateNext ==
    \E p \in {1} :
        \/ Begin(p, EnrollGradeRequests)
        \/ Reset(p)
        \/ create_enrollment(p)
        \/ update_enrollment(p)

SeqUpdateSpec == InitEnrolled /\ [][SeqUpdateNext]_vars

\* Concurrent workers, one request each, on the catalogue: courses and
\* students are created while course codes and e-mail addresses are changed.
CatalogRequests ==
    CreateCourseRequests \cup RecodeRequests \cup CreateStudentRequests \cup ReaddressRequests

CatalogNext ==
    \E p \in Procs :
        \/ Begin(p, CatalogRequests)
        \/ create_course(p)
        \/ update_course(p)
        \/ create_student(p)
        \/ update_student(p)

CatalogSpec == Init /\ [][CatalogNext]_vars

\* One worker of the course service handling requests one at a time while the
\* clock advances: admins log in and out and administer the courses.
AuthRequests == LoginRequests \cup LogoutRequests \cup CourseAdminRequests

AuthNext ==
    \/ Tick
    \/ \E p \in {1} :
        \/ Receive(p, AuthRequests)
        \/ Reset(p)
        \/ verify_admin_token(p)
        \/ admin_login(p)
        \/ admin_logout(p)
        \/ create_course(p)
        \/ update_course(p)
        \/ delete_course(p)

AuthSpec == InitEnrolled /\ [][AuthNext]_vars

\* Concurrent workers of the course service (the threads of the host runtime's
\* pool), one request each, while the clock advances: admins log in, and
\* logouts and course deletions presenting the issued tokens race each other.
TokenRaceRequests == GoodLogins \cup BearerRequests

TokenRaceNext ==
    \/ Tick
    \/ \E p \in Procs :
        \/ Receive(p, TokenRaceRequests)
        \/ verify_admin_token(p)
        \/ admin_login(p)
        \/ admin_logout(p)
        \/ delete_course(p)

TokenRaceSpec == Init /\ [][TokenRaceNext]_vars

\* One worker handling requests one at a time: courses and students are patched.
PatchRequests == CoursePatchRequests \cup StudentPatchRequests

SeqPatchNext ==
    \E p \in {1} :
        \/ Begin(p, PatchRequests)
        \/ ResetWithin(p, MaxPatchOps)
        \/ update_course(p)
        \/ update_student(p)

SeqPatchSpec == InitEnrolled /\ [][SeqPatchNext]_vars

\* One worker handling requests one at a time: enrollments are created and
\* listed by student and by course while students and courses are deleted.
ReadRequests ==
    CreateRequests \cup DeleteStudentRequests \cup DeleteCourseRequests
        \cup ByStudentRequests \cup ByCourseRequests

SeqReadNext ==
    \E p \in {1} :
        \/ Begin(p, ReadRequests)
        \/ Reset(p)
        \/ create_enrollment(p)
        \/ delete_student(p)
        \/ delete_course(p)
        \/ get_enrollments_by_student(p)
        \/ get_enrollments_by_course(p)

SeqReadSpec == InitEnrolled /\ [][SeqReadNext]_vars

\* One worker handling requests of the three services one at a time.
SeqRequests ==
    CreateRequests \cup DeleteRequests \cup UpdateCourseRequests
        \cup DeleteCourseRequests \cup DeleteStudentRequests

SeqNext ==
    \E p \in {1} :
        \/ Begin(p, SeqRequests)
        \/ Reset(p)
        \/ create_enrollment(p)
        \/ delete_enrollment(p)
        \/ update_course(p)
        \/ delete_course(p)
        \/ delete_student(p)

SeqSpec == InitEnrolled /\ [][SeqNext]_vars

\* ==================================================================== claims
Started == {p \in Procs : pc[p] # "idle"}

OnlyRequests(op) == \A p \in Procs : req[p].op \in {"none", op}

\* I1 on the committed rows: every course's counter counts its enrollments.
CounterCountsRows ==
    \A c \in DOMAIN courses :
        courses[c].current_enrollment = Cardinality(RowsOfCourse(c))

\* C1: while only create_enrollment requests run, however their statements
\* interleave, no committed course row has current_enrollment > max_capacity.
C1_NoOverbooking ==
    OnlyRequests("create_enrollment") =>
        \A c \in DOMAIN courses :
            courses[c].current_enrollment <= courses[c].max_capacity

\* C2: when N > C create_enrollment requests of N distinct students for one
\* active course of capacity C and counter 0 have all completed, exactly C of
\* them succeeded, the others got CAPACITY_EXCEEDED, and the counter is C.
C2_ExactlyCapacitySucceed ==
    \A c \in DOMAIN courses :
        ( /\ OnlyRequests("create_enrollment")
          /\ \A p \in Started : pc[p] = "done" /\ req[p].course_id = c
          /\ \A p, q \in Started : p # q => req[p].student_id # req[q].student_id
          /\ Cardinality(Started) > courses[c].max_capacity )
        => /\ Cardinality({p \in Started : result[p] = "CREATED"})
                = courses[c].max_capacity
           /\ \A p \in Started : result[p] \in {"CREATED", "CAPACITY_EXCEEDED"}
           /\ courses[c].current_enrollment = courses[c].max_capacity

\* C3: when two concurrent create_enrollment requests with the same
\* (student_id, course_id) for an active course with free capacity (room for
\* two, so that the course is not full for the second either) have both
\* completed, one succeeded and the other failed with DUPLICATE.
C3_OneSuccessOneDuplicate ==
    \A p, q \in Procs :
        ( /\ p # q
          /\ Started = {p, q}
          /\ pc[p] = "done" /\ pc[q] = "done"
          /\ req[p].op = "create_enrollment" /\ req[q].op = "create_enrollment"
          /\ req[p].student_id = req[q].student_id
          /\ req[p].course_id = req[q].course_id
          /\ courses[req[p].course_id].max_capacity >= 2 )
        => {result[p], result[q]} = {"CREATED", "DUPLICATE"}

\* C4 (I2): in every reachable state of concurrent create_enrollment,
\* update_enrollment and delete_enrollment requests, no two committed
\* enrollment rows share a (student_id, course_id) pair.
C4_UniquePair ==
    \A e1, e2 \in enrollments :
        (e1.student_id = e2.student_id /\ e1.course_id = e2.course_id) => e1 = e2

\* C4's case: two requests for the same pair raced, and the second INSERT was
\* refused.
C4_Witness ==
    \E p, q \in Procs :
        /\ p # q
        /\ req[p].op = "create_enrollment" /\ req[q].op = "create_enrollment"
        /\ req[p].student_id = req[q].student_id
        /\ req[p].course_id = req[q].course_id
        /\ result[p] = "CREATED" /\ result[q] = "DB_ERROR"

\* C5: from a consistent state, after any sequence of create_enrollment and
\* delete_enrollment requests handled one at a time, every course's counter
\* equals its number of enrollment rows and is not negative.
C5_SequentialCounterConsistent ==
    /\ CounterCountsRows
    /\ \A c \in DOMAIN courses : courses[c].current_enrollment >= 0

\* C5's case: an enrollment created by an earlier request (only those are in
\* course 2) is being deleted.
C5_Witness ==
    /\ pc[1] = "d_commit"
    /\ fetched[1].course_id = 2
    /\ tx[1].del # {}
    /\ tx[1].crs # {}

\* C6 (I1): after any sequence of requests to the three services handled one
\* at a time, every remaining course's counter equals its number of rows.
C6_CounterCountsRowsAllServices == CounterCountsRows

\* C7: while only delete_enrollment requests run, however their statements
\* interleave, every course's counter equals its number of remaining rows.
C7_ConcurrentDeletesKeepCounter ==
    OnlyRequests("delete_enrollment") => CounterCountsRows

\* C8 (I4): current_enrollment is never negative, in the committed rows and
\* in the row versions transactions are about to commit.
C8_CounterNeverNegative ==
    /\ \A c \in DOMAIN courses : courses[c].current_enrollment >= 0
    /\ \A p \in Procs : \A w \in tx[p].crs : w.row.current_enrollment >= 0

\* C8's case: a delete_enrollment that removes a row of a course whose
\* counter is already 0 writes 0.
C8_Witness ==
    \E p \in Procs :
        /\ pc[p] = "d_commit"
        /\ tx[p].del # {}
        /\ \E w \in tx[p].crs :
            /\ courses[w.course_id].current_enrollment = 0
            /\ w.row.current_enrollment = 0

\* C9: a completed create_enrollment reports the first failing check in the
\* order student exists, course exists, course active, course not full, not
\* already enrolled.  (Requests are handled one at a time, so a failed request
\* leaves the rows it checked as they were.)
C9_FirstFailingCheck ==
    \A p \in Procs :
        (pc[p] = "done" /\ req[p].op = "create_enrollment") =>
            LET s == req[p].student_id
                c == req[p].course_id
                studentOk == s \in DOMAIN students
                courseOk == c \in DOMAIN courses
                active == courses[c].status = "active"
                notFull == courses[c].current_enrollment < courses[c].max_capacity
                enrolled == RowsOfPair(s, c) # {}
                failed == result[p] # "CREATED"
            IN  /\ ~studentOk => result[p] = "STUDENT_NOT_FOUND"
                /\ (studentOk /\ ~courseOk) => result[p] = "COURSE_NOT_FOUND"
                /\ (studentOk /\ courseOk /\ ~active) => result[p] = "INVALID_STATE"
                /\ (failed /\ studentOk /\ courseOk /\ active /\ ~notFull)
                        => result[p] = "CAPACITY_EXCEEDED"
                /\ (failed /\ studentOk /\ courseOk /\ active /\ notFull)
                        => result[p] = "DUPLICATE"
                /\ result[p] = "DUPLICATE"
                        => (studentOk /\ courseOk /\ active /\ notFull /\ enrolled)

\* C9's case: the course is full and the student is already enrolled in it,
\* and the request was refused as CAPACITY_EXCEEDED.
C9_Witness ==
    \E p \in Procs :
        /\ pc[p] = "done" /\ req[p].op = "create_enrollment"
        /\ result[p] = "CAPACITY_EXCEEDED"
        /\ RowsOfPair(req[p].student_id, req[p].course_id) # {}

\* C10: whenever create_enrollment commits, the course of the new enrollment
\* has status 'active' in the committed state.
C10_CommitOnlyIfActive ==
    [][\A p \in Procs :
        (pc[p] = "c_commit" /\ pc'[p] = "done") =>
            /\ req[p].course_id \in DOMAIN courses'
            /\ courses'[req[p].course_id].status = "active"]_vars

\* C11: with requests handled one at a time, a create_enrollment for an
\* existing student not yet enrolled in an active course with
\* current_enrollment < max_capacity succeeds, adds exactly one row (of that
\* pair) and raises that course's counter by exactly 1; a create_enrollment
\* for a full active course fails with CAPACITY_EXCEEDED and adds no row.
C11_SequentialCreate ==
    [][\A p \in Procs :
        (req[p].op = "create_enrollment" /\ pc[p] # "done" /\ pc'[p] = "done") =>
            LET s == req[p].student_id
                c == req[p].course_id
                known == s \in DOMAIN students /\ c \in DOMAIN courses
                active == courses[c].status = "active"
                full == courses[c].current_enrollment >= courses[c].max_capacity
            IN  /\ (known /\ active /\ ~full /\ RowsOfPair(s, c) = {}) =>
                    /\ result'[p] = "CREATED"
                    /\ \E e \in enrollments' \ enrollments :
                        /\ enrollments' = enrollments \cup {e}
                        /\ e.student_id = s /\ e.course_id = c
                    /\ courses' = [courses EXCEPT ![c].current_enrollment = @ + 1]
                /\ (known /\ active /\ full) =>
                    /\ result'[p] = "CAPACITY_EXCEEDED"
                    /\ enrollments' = enrollments
                    /\ courses' = courses]_vars

\* C11's case (Scenario A): the first request filled course 2, which held no
\* row before, and the second, of another student, was refused.
C11_Witness ==
    /\ ops = 2
    /\ pc[1] = "done" /\ req[1].op = "create_enrollment" /\ req[1].course_id = 2
    /\ result[1] = "CAPACITY_EXCEEDED"
    /\ \E e \in RowsOfCourse(2) : e.student_id # req[1].student_id
    /\ courses[2].current_enrollment = courses[2].max_capacity

\* C12: with requests handled one at a time, delete_enrollment of an
\* enrollment_id that does not exist answers NOT_FOUND and changes nothing;
\* of an existing one it removes exactly that row and lowers by 1 the counter
\* of the course the row references, leaving every other row, every other
\* course's counter and all students unchanged.
C12_DeleteFrame ==
    [][\A p \in Procs :
        (req[p].op = "delete_enrollment" /\ pc[p] # "done" /\ pc'[p] = "done") =>
            LET rows == RowsOfId(req[p].enrollment_id)
            IN  /\ rows = {} =>
                    /\ result'[p] = "NOT_FOUND"
                    /\ UNCHANGED <<enrollments, courses, students>>
                /\ \A e \in rows :
                    /\ result'[p] = "DELETED"
                    /\ enrollments' = enrollments \ {e}
                    /\ courses' = [courses EXCEPT
                                    ![e.course_id].current_enrollment = @ - 1]
                    /\ students' = students]_vars

\* C12's case: a row was deleted while other rows, of the same course and of
\* the other course, stayed.
C12_Witness ==
    /\ pc[1] = "done" /\ req[1].op = "delete_enrollment"
    /\ result[1] = "DELETED"
    /\ RowsOfCourse(1) # {} /\ RowsOfCourse(2) # {}
    /\ courses[1].current_enrollment >= 1

\* C13: update_enrollment writes only the supplied ones of grade and status:
\* a field the request leaves out keeps its value, and the request never
\* changes the row's enrollment_id, student_id or course_id, any other row,
\* any course or any student.
C13_UpdateEnrollmentFrame ==
    [][\A p \in Procs :
        (req[p].op = "update_enrollment" /\ pc[p] # "done" /\ pc'[p] = "done") =>
            /\ UNCHANGED <<courses, students>>
            /\ \A e \in enrollments : e.enrollment_id # req[p].enrollment_id
                                        => e \in enrollments'
            /\ { [enrollment_id |-> e.enrollment_id, student_id |-> e.student_id,
                  course_id |-> e.course_id] : e \in enrollments' }
                = { [enrollment_id |-> e.enrollment_id, student_id |-> e.student_id,
                     course_id |-> e.course_id] : e \in enrollments }
            /\ Cardinality(enrollments') = Cardinality(enrollments)
            /\ result'[p] = "UPDATED" =>
                \A e \in RowsOfId(req[p].enrollment_id) :
                    \E u \in enrollments' :
                        /\ u.enrollment_id = e.enrollment_id
                        /\ u.grade = (IF req[p].grade = "None"
                                      THEN e.grade ELSE req[p].grade)
                        /\ u.status = (IF req[p].status = "None"
                                       THEN e.status ELSE req[p].status)]_vars

\* C13's case: a request with a grade and no status was applied to a row whose
\* status an earlier request had set, and the status is still there.
C13_Witness ==
    /\ pc[1] = "done" /\ req[1].op = "update_enrollment" /\ result[1] = "UPDATED"
    /\ req[1].grade = "A" /\ req[1].status = "None"
    /\ \E e \in RowsOfId(req[1].enrollment_id) :
        e.grade = "A" /\ e.status = "completed"
    /\ Cardinality(enrollments) >= 2

\* C14: update_enrollment answers NOT_FOUND when the enrollment does not
\* exist, whether or not the request supplies a field, and BAD_REQUEST when
\* it exists and the request supplies neither grade nor status; neither
\* changes a row.
C14_UpdateEnrollmentErrors ==
    [][\A p \in Procs :
        (req[p].op = "update_enrollment" /\ pc[p] # "done" /\ pc'[p] = "done") =>
            LET missing == RowsOfId(req[p].enrollment_id) = {}
                empty == req[p].grade = "None" /\ req[p].status = "None"
            IN  /\ result'[p] = "NOT_FOUND" <=> missing
                /\ result'[p] = "BAD_REQUEST" <=> (~missing /\ empty)
                /\ (missing \/ empty) => UNCHANGED <<enrollments, courses, students>>]_vars

\* C14's case: a request without fields for an enrollment that does not exist
\* was answered NOT_FOUND.
C14_Witness ==
    /\ pc[1] = "done" /\ req[1].op = "update_enrollment"
    /\ RowsOfId(req[1].enrollment_id) = {}
    /\ req[1].grade = "None" /\ req[1].status = "None"
    /\ result[1] = "NOT_FOUND"
    /\ enrollments # {}

\* C15: with requests handled one at a time, get_enrollments_by_student and
\* get_enrollments_by_course answer NOT_FOUND exactly when the student or
\* course does not exist, and otherwise succeed with exactly the enrollment
\* rows that reference it (none when there is none); no step of either
\* changes a row, a counter or a sequence.
C15_ListByStudentOrCourse ==
    [][\A p \in Procs :
        /\ (req[p].op = "get_enrollments_by_student" /\ pc[p] # "done") =>
            /\ UNCHANGED <<students, courses, enrollments, nextId, catalog>>
            /\ pc'[p] = "done" =>
                IF req[p].student_id \in DOMAIN students
                THEN /\ result'[p] = "OK"
                     /\ body'[p] = RowsOfStudent(req[p].student_id)
                ELSE result'[p] = "NOT_FOUND"
        /\ (req[p].op = "get_enrollments_by_course" /\ pc[p] # "done") =>
            /\ UNCHANGED <<students, courses, enrollments, nextId, catalog>>
            /\ pc'[p] = "done" =>
                IF req[p].course_id \in DOMAIN courses
                THEN /\ result'[p] = "OK"
                     /\ body'[p] = RowsOfCourse(req[p].course_id)
                ELSE result'[p] = "NOT_FOUND"]_vars

\* C15's case: a student's list was returned, with a row in it, while the
\* table holds rows of another student too.
C15_Witness ==
    /\ pc[1] = "done" /\ req[1].op = "get_enrollments_by_student"
    /\ result[1] = "OK"
    /\ body[1] # {}
    /\ body[1] # enrollments

\* C16: with requests handled one at a time, when delete_course succeeds the
\* course row and every enrollment row that referenced it are gone, no
\* remaining enrollment references a missing course, and every other course
\* keeps its row, counter and enrollments.
C16_DeleteCourseCascades ==
    [][\A p \in Procs :
        ( /\ req[p].op = "delete_course"
          /\ pc[p] # "done" /\ pc'[p] = "done"
          /\ result'[p] = "DELETED" ) =>
            LET c == req[p].course_id
            IN  /\ DOMAIN courses' = (DOMAIN courses) \ {c}
                /\ \A d \in DOMAIN courses' : courses'[d] = courses[d]
                /\ enrollments' = enrollments \ RowsOfCourse(c)
                /\ \A e \in enrollments' : e.course_id \in DOMAIN courses'
                /\ students' = students]_vars

\* C16's case: a course with two enrollment rows is being deleted while the
\* other course has a row.
C16_Witness ==
    /\ pc[1] = "dc_commit"
    /\ Cardinality(RowsOfCourse(req[1].course_id)) = 2
    /\ tx[1].delC = {req[1].course_id}
    /\ \E e \in enrollments : e.course_id # req[1].course_id

\* C17: after any interleaving of create_course, update_course, create_student
\* and update_student requests no two courses share a course_code and no two
\* students share an email, and a create_course or create_student that
\* collides with an existing code or address is rejected as DUPLICATE (400).
C17_UniqueCodesAndEmails ==
    /\ \A c, d \in DOMAIN courses :
        courses[c].course_code = courses[d].course_code => c = d
    /\ \A c, d \in DOMAIN students :
        students[c].email = students[d].email => c = d
    /\ \A p \in Procs :
        ( /\ pc[p] = "done"
          /\ req[p].op \in {"create_course", "create_student"}
          /\ result[p] # "CREATED" ) => result[p] = "DUPLICATE"

\* C18: update_course and update_student are partial patches.  A request for
\* an id that does not exist answers NOT_FOUND, a request that supplies no
\* field answers BAD_REQUEST, and neither changes a row; an applied update
\* stores each supplied field, keeps the stored value of every field the
\* request leaves unset (so it cannot set a stored field to NULL), and writes
\* no other row.
C18_PartialPatch ==
    [][\A p \in Procs :
        /\ (req[p].op = "update_course" /\ pc[p] # "done" /\ pc'[p] = "done") =>
            LET r == req[p]
                c == r.course_id
                unset == /\ r.course_code = 0 /\ r.course_name = "None"
                         /\ r.description = "None" /\ r.credits = -1
                         /\ r.instructor = "None" /\ r.max_capacity = -1
                         /\ r.status = "None"
            IN  /\ UNCHANGED <<students, enrollments>>
                /\ c \notin DOMAIN courses => result'[p] = "NOT_FOUND"
                /\ (c \in DOMAIN courses /\ unset) => result'[p] = "BAD_REQUEST"
                /\ result'[p] # "UPDATED" => courses' = courses
                /\ result'[p] = "UPDATED" =>
                    /\ DOMAIN courses' = DOMAIN courses
                    /\ \A d \in DOMAIN courses : d # c => courses'[d] = courses[d]
                    /\ courses'[c] =
                        [course_code |-> IF r.course_code = 0
                                    THEN courses[c].course_code ELSE r.course_code,
                         course_name |-> IF r.course_name = "None"
                                    THEN courses[c].course_name ELSE r.course_name,
                         description |-> IF r.description = "None"
                                    THEN courses[c].description ELSE r.description,
                         credits |-> IF r.credits = -1
                                    THEN courses[c].credits ELSE r.credits,
                         instructor |-> IF r.instructor = "None"
                                    THEN courses[c].instructor ELSE r.instructor,
                         max_capacity |-> IF r.max_capacity = -1
                                    THEN courses[c].max_capacity ELSE r.max_capacity,
                         status |-> IF r.status = "None"
                                    THEN courses[c].status ELSE r.status,
                         current_enrollment |-> courses[c].current_enrollment]
        /\ (req[p].op = "update_student" /\ pc[p] # "done" /\ pc'[p] = "done") =>
            LET r == req[p]
                d == r.student_id
                unset == r.name = "None" /\ r.email = 0 /\ r.phone = "None"
            IN  /\ UNCHANGED <<courses, enrollments>>
                /\ d \notin DOMAIN students => result'[p] = "NOT_FOUND"
                /\ (d \in DOMAIN students /\ unset) => result'[p] = "BAD_REQUEST"
                /\ result'[p] # "UPDATED" => students' = students
                /\ result'[p] = "UPDATED" =>
                    /\ DOMAIN students' = DOMAIN students
                    /\ \A e \in DOMAIN students : e # d => students'[e] = students[e]
                    /\ students'[d] =
                        [name |-> IF r.name = "None" THEN students[d].name ELSE r.name,
                         email |-> IF r.email = 0 THEN students[d].email ELSE r.email,
                         phone |-> IF r.phone = "None"
                                    THEN students[d].phone ELSE r.phone]]_vars

\* C18's case: a course whose description and instructor an earlier request
\* had set was patched by a request that supplies neither, and both are
\* still stored.
C18_Witness ==
    /\ pc[1] = "done" /\ req[1].op = "update_course" /\ result[1] = "UPDATED"
    /\ req[1].description = "None" /\ req[1].instructor = "None"
    /\ req[1].credits = 4
    /\ courses[req[1].course_id].description = "Text"
    /\ courses[req[1].course_id].instructor = "Staff"
    /\ courses[req[1].course_id].credits = 4

\* The statements of a handler's body: past the dependency, before the answer.
InBody(label) ==
    label \notin {"idle", "auth", "auth_expiry", "auth_del", "auth_return", "done"}

\* C19: create_course, update_course and delete_course change the datastore
\* only for a request whose Authorization header starts with 'Bearer ' and
\* names a token that is in the token table and not past its expires_at when
\* it is verified.  A request with no header, another scheme, an unknown or an
\* expired token is answered UNAUTHORIZED (401), and no step of the
\* verification changes a course, an enrollment or a student.
C19_AdminOnlyWrites ==
    [][\A p \in Procs :
        req[p].op \in {"create_course", "update_course", "delete_course"} =>
            LET h == req[p].authorization
                known == StartsWithBearer(h) /\ TokenOf(h) \in DOMAIN active_tokens
                deadline == active_tokens[TokenOf(h)].expires_at
                rejected == pc'[p] = "done" /\ result'[p] = "UNAUTHORIZED"
            IN  /\ ~InBody(pc[p]) => UNCHANGED <<courses, enrollments, students>>
                /\ (~InBody(pc[p]) /\ InBody(pc'[p])) =>
                        pc[p] = "auth_return" /\ known
                /\ (pc[p] # "auth_return" /\ pc'[p] = "auth_return") =>
                        pc[p] = "auth_expiry" /\ known /\ now <= deadline
                /\ (pc[p] = "auth" /\ ~known) => (pc'[p] = "auth" \/ rejected)
                /\ (pc[p] = "auth_expiry" /\ known /\ now > deadline) =>
                        pc'[p] \in {"auth_expiry", "auth_del"}
                /\ pc[p] = "auth_del" => (pc'[p] = "auth_del" \/ rejected)]_vars

\* C19's case: the second request, a create_course under the token the first
\* request's login issued, came after the token's expiry and was refused.
C19_Witness ==
    /\ ops = 2
    /\ pc[1] = "done" /\ req[1].op = "create_course"
    /\ req[1].authorization = Header(<<"Bearer ">>, 1)
    /\ result[1] = "UNAUTHORIZED"
    /\ nextToken = 2
    /\ now > 8
    /\ DOMAIN courses = CourseIds

\* C20: a successful admin_login at time t stores a new token with expires_at
\* = t + 8 hours and leaves the other tokens alone; a login with an unknown
\* username or a wrong password answers UNAUTHORIZED and adds no token.
\* verify_admin_token accepts a token of the table at every time up to and
\* including its expires_at and rejects it at every later time, and the first
\* rejected use removes the token from the table.
C20_TokenLifetime ==
    [][\A p \in Procs :
        LET token == TokenOf(req[p].authorization)
        IN  /\ (pc[p] = "login" /\ pc'[p] = "done") =>
                IF req[p].username = "admin" /\ req[p].password = "secret"
                THEN /\ result'[p] = "OK"
                     /\ \E t \in (DOMAIN active_tokens') \ DOMAIN active_tokens :
                        /\ DOMAIN active_tokens' = (DOMAIN active_tokens) \cup {t}
                        /\ active_tokens'[t].expires_at = now + 8
                        /\ \A u \in DOMAIN active_tokens :
                                active_tokens'[u] = active_tokens[u]
                ELSE result'[p] = "UNAUTHORIZED" /\ active_tokens' = active_tokens
            /\ (pc[p] = "auth_expiry" /\ pc'[p] # "auth_expiry") =>
                /\ token \in DOMAIN active_tokens
                /\ pc'[p] = (IF now <= active_tokens[token].expires_at
                             THEN "auth_return" ELSE "auth_del")
                /\ active_tokens' = active_tokens
            /\ (pc[p] = "auth_return" /\ pc'[p] # "auth_return") =>
                /\ InBody(pc'[p])
                /\ active_tokens' = active_tokens
            /\ (pc[p] = "auth_del" /\ pc'[p] # "auth_del") =>
                /\ pc'[p] = "done" /\ result'[p] = "UNAUTHORIZED"
                /\ token \notin DOMAIN active_tokens'
                /\ \A u \in (DOMAIN active_tokens) \ {token} :
                    /\ u \in DOMAIN active_tokens'
                    /\ active_tokens'[u] = active_tokens[u]]_vars

\* C20's case: a token is used at the very hour it expires, and is accepted.
C20_Witness ==
    /\ pc[1] = "auth_return"
    /\ TokenOf(req[1].authorization) \in DOMAIN active_tokens
    /\ now = active_tokens[TokenOf(req[1].authorization)].expires_at
    /\ now = 8

\* C21: when admin-gated calls and admin_logout presenting the same token run
\* concurrently, every call ends accepted or rejected with UNAUTHORIZED (401):
\* none fails because another request removed the token between the
\* membership test and the later lookup or delete of the entry.
C21_TokenTableSafe ==
    \A p \in Procs :
        (pc[p] = "done" /\ req[p].op \in AdminOnly) => result[p] # "INTERNAL_ERROR"

\* C22: a step of a create_enrollment request changes the datastore only when
\* it is the commit of a successful request, and then the new row and the
\* counter's increment appear together; a request that fails, on one of the
\* five checks or on a datastore error after the INSERT and before the
\* commit, adds no row and changes no counter.
C22_FailedCreateChangesNothing ==
    [][\A p \in Procs :
        (req[p].op = "create_enrollment" /\ pc'[p] # pc[p]) =>
            IF pc'[p] = "done" /\ result'[p] = "CREATED"
            THEN /\ \E e \in enrollments' \ enrollments :
                    /\ enrollments' = enrollments \cup {e}
                    /\ e.student_id = req[p].student_id
                    /\ e.course_id = req[p].course_id
                 /\ courses' = [courses EXCEPT
                                ![req[p].course_id].current_enrollment = @ + 1]
            ELSE UNCHANGED <<enrollments, courses, students>>]_vars

\* C22's case: the only request so far got past its five checks and its
\* INSERT, and then failed on a datastore error.
C22_Witness ==
    \E p \in Procs :
        /\ Started = {p}
        /\ pc[p] = "done" /\ result[p] = "DB_ERROR"
        /\ nextId = Cardinality(enrollments) + 2
        /\ RowsOfPair(req[p].student_id, req[p].course_id) = {}

\* C23: in every reachable state every committed Enrollment row references an
\* existing student and an existing course, also when delete_student or
\* delete_course removes the referenced row between create_enrollment's
\* existence check and its INSERT or commit.
C23_ReferencesExist ==
    \A e \in enrollments :
        e.student_id \in DOMAIN students /\ e.course_id \in DOMAIN courses

\* C23's case: a create_enrollment passed its checks, a concurrent delete then
\* removed the student or the course, and the INSERT was refused.
C23_Witness ==
    \E p, q \in Procs :
        /\ Started = {p, q}
        /\ req[p].op = "create_enrollment" /\ pc[p] = "done"
        /\ result[p] = "DB_ERROR"
        /\ req[q].op \in {"delete_student", "delete_course"} /\ pc[q] = "done"
        /\ \/ req[p].student_id \notin DOMAIN students
           \/ req[p].course_id \notin DOMAIN courses

\* A token that was issued and is no longer in the token table.
Removed(t) == t \in 1..(nextToken - 1) /\ t \notin DOMAIN active_tokens

\* C24: a token removed from the table, by admin_logout or by the expiry branch
\* of verify_admin_token, never returns to it; an admin-gated call that
\* presents it afterwards is answered UNAUTHORIZED (401) and never reaches the
\* handler's body; and a removal takes out only the token of the request that
\* performs it, leaving every other entry as it was.
C24_RemovedTokenStaysRejected ==
    [][/\ \A t \in 1..MaxTokens : Removed(t) => t \notin DOMAIN active_tokens'
       /\ \A p \in Procs :
            (req[p].op \in AdminOnly /\ Removed(TokenOf(req[p].authorization))) =>
                /\ pc[p] = "auth" =>
                    \/ pc'[p] = "auth"
                    \/ pc'[p] = "done" /\ result'[p] = "UNAUTHORIZED"
                /\ ~InBody(pc[p]) => ~InBody(pc'[p])
       /\ \A t \in DOMAIN active_tokens :
            t \notin DOMAIN active_tokens' =>
                /\ \E p \in Procs :
                    /\ pc[p] \in {"auth_del", "lo_del"} /\ pc'[p] = "done"
                    /\ TokenOf(req[p].authorization) = t
                /\ \A u \in (DOMAIN active_tokens) \ {t} :
                    /\ u \in DOMAIN active_tokens'
                    /\ active_tokens'[u] = active_tokens[u]]_vars

\* C24's case: a logout has removed the token it presented, and a
\* delete_course presenting the same token is about to be verified.
C24_Witness ==
    \E p, q \in Procs :
        /\ req[q].op = "admin_logout" /\ pc[q] = "done" /\ result[q] = "OK"
        /\ req[p].op = "delete_course" /\ pc[p] = "auth"
        /\ req[p].authorization = req[q].authorization
        /\ Removed(TokenOf(req[p].authorization))

\* C25: no step of an update_course request changes an Enrollment row, a
\* student, the current_enrollment of any course or any field of a course
\* other than the addressed one, also when the request lowers max_capacity
\* below the course's current_enrollment and while create_enrollment requests
\* run concurrently.
C25_UpdateCourseFrame ==
    [][\A p \in Procs :
        (req[p].op = "update_course" /\ pc'[p] # pc[p]) =>
            /\ enrollments' = enrollments
            /\ students' = students
            /\ DOMAIN courses' = DOMAIN courses
            /\ \A c \in DOMAIN courses :
                /\ courses'[c].current_enrollment = courses[c].current_enrollment
                /\ c # req[p].course_id => courses'[c] = courses[c]]_vars

\* C25's case: an update_course has lowered max_capacity below the number of
\* students enrolled in the course.
C25_Witness ==
    \E p \in Procs :
        /\ req[p].op = "update_course" /\ pc[p] = "done" /\ result[p] = "UPDATED"
        /\ req[p].max_capacity = 1
        /\ courses[req[p].course_id].max_capacity = 1
        /\ courses[req[p].course_id].current_enrollment = 2
        /\ Cardinality(RowsOfCourse(req[p].course_id)) = 2

\* C26: from an initial state whose counters count the rows, a successful
\* create_enrollment followed by the delete_enrollment of the enrollment it
\* created, with no other request, leaves the rows of the table and every
\* course's current_enrollment exactly as they were initially.
C26_CreateThenDeleteRestores ==
    \A p, q \in Procs :
        ( /\ Started = {p, q}
          /\ req[p].op = "create_enrollment"
          /\ pc[p] = "done" /\ result[p] = "CREATED"
          /\ req[q].op = "delete_enrollment"
          /\ pc[q] = "done" /\ result[q] = "DELETED"
          /\ req[q].enrollment_id = nextId - 1 )
        => /\ enrollments = {EnrollmentRow(i, i, 1) : i \in 1..(nextId - 2)}
           /\ \A c \in DOMAIN courses :
                courses[c].current_enrollment = IF c = 1 THEN nextId - 2 ELSE 0

\* C26's case: a course holding one enrollment received a second one, which
\* was then deleted.
C26_Witness ==
    \E p, q \in Procs :
        /\ Started = {p, q}
        /\ req[p].op = "create_enrollment" /\ req[p].course_id = 1
        /\ pc[p] = "done" /\ result[p] = "CREATED"
        /\ req[q].op = "delete_enrollment"
        /\ pc[q] = "done" /\ result[q] = "DELETED"
        /\ req[q].enrollment_id = 2 /\ nextId = 3

\* C27: under fair scheduling every create_enrollment and delete_enrollment
\* request that a worker has taken is eventually answered, with success or
\* with an error, however many requests on the same course run concurrently;
\* and an answered request is never run again.
C27_RequestsComplete ==
    /\ \A p \in Procs : (pc[p] \notin {"idle", "done"}) ~> (pc[p] = "done")
    /\ [][\A p \in Procs :
            pc[p] = "done" => (pc'[p] = "done" /\ result'[p] = result[p])]_vars

\* C27's case: every worker has a request on course 1 in flight, one holds
\* the lock of the course row and another waits for it.
C27_Witness ==
    /\ \A p \in Procs : pc[p] \notin {"idle", "done"}
    /\ \A p \in Procs :
        \/ req[p].op = "create_enrollment" /\ req[p].course_id = 1
        \/ req[p].op = "delete_enrollment" /\ fetched[p].course_id = 1
    /\ \E p \in Procs :
        /\ pc[p] \in {"c_update", "d_update"}
        /\ CourseLockedByOther(p, 1)

====
